---- MODULE Spec2Model ----
(***************************************************************************)
(* A model of telnetcmd.py: the reader and writer handles that             *)
(* TelnetRequestHandler puts over a telnetlib.Telnet connection.           *)
(*                                                                         *)
(* _TelnetReader.read / read1 / peek drive telnetlib's raw queue (rawq),   *)
(* cooked queue (cookedq) and IAC scanner (process_rawq, fill_rawq);       *)
(* _TelnetWriter.write doubles IAC bytes.  The telnetlib methods the       *)
(* handles call are modelled from CPython's Lib/telnetlib.py, which is     *)
(* what the calls in telnetcmd.py execute.                                 *)
(*                                                                         *)
(* Bytes are integers 0..255; a byte string is a sequence of bytes.        *)
(***************************************************************************)
EXTENDS Integers, Sequences, FiniteSets, TLC

(***************************************************************************)
(* Protocol bytes (telnetlib's module constants).                          *)
(***************************************************************************)
IAC == 255
DONT == 254
DO == 253
WONT == 252
WILL == 251
SB == 250
NOP == 241
SE == 240
theNULL == 0
XON == 17
NOOPT == 0
ECHO == 1
\* a literal data byte, the letter A
Letter == [A |-> 65]

(***************************************************************************)
(* Bounds of the model.                                                    *)
(***************************************************************************)
\* total number of bytes the connection delivers in one behaviour
MaxWire == 3
\* largest byte count asked of read, read1 and peek
MaxN == 2
\* largest number of bytes one recv() returns in the liveness specification
MaxBurst == 2
\* longest byte string handed to write
MaxLen == 2
\* number of write calls in one behaviour
MaxWrites == 2
\* number of connections of the server-level specification
MaxSessions == 2
\* number of bytes each connection delivers in the server-level specification
MaxIn == 1
\* number of bytes written to each connection in the server-level specification
MaxOut == 1
\* total number of bytes the connection delivers in the subnegotiation-level
\* specification: IAC SB, one payload byte, IAC SE and one byte after
MaxSub == 6

\* the bytes the connection delivers in the parser-level specification
ParserBytes == {theNULL, ECHO, XON, Letter.A, SE, NOP, SB, WILL, WONT, DO, DONT, IAC}
\* the bytes the connection delivers in the reader-level specification
ReaderBytes == {Letter.A, DO, IAC}
\* the bytes an application writes in the writer-level specification
WriterBytes == {theNULL, Letter.A, IAC}
\* the bytes the connection delivers in the liveness specification: 241 alone
\* is a literal data byte, 255 255 is a literal 255, 255 241 is IAC NOP
LiveBytes == {NOP, IAC}

Min(a, b) == IF a <= b THEN a ELSE b

\* all byte strings over alphabet of length 0..k
Strings(alphabet, k) == UNION {[1..m -> alphabet] : m \in 0..k}

RECURSIVE Concat(_)
\* the concatenation of a sequence of byte strings
Concat(ss) == IF ss = <<>> THEN <<>> ELSE Head(ss) \o Concat(Tail(ss))

(***************************************************************************)
(* Python slices q[:n] and q[n:] for n >= 0.                               *)
(***************************************************************************)
Take(q, n) == SubSeq(q, 1, Min(n, Len(q)))

DropLosesOne(q, n) == SubSeq(q, Min(n, Len(q)) + 2, Len(q))

Drop(q, n) == SubSeq(q, Min(n, Len(q)) + 1, Len(q))

(***************************************************************************)
(* telnetlib.Telnet.process_rawq: one iteration of its while loop for the  *)
(* raw byte c.  st holds the locals buf[0], buf[1] and the fields iacseq,  *)
(* sb, sbdataq; calls and sends collect the option_callback invocations    *)
(* and the sock.sendall refusals the iteration makes.  cb says whether an  *)
(* option_callback is set.                                                 *)
(***************************************************************************)
AppendBuf(st, c) ==
  IF st.sb = 0 THEN [st EXCEPT !.buf0 = Append(@, c)]
               ELSE [st EXCEPT !.buf1 = Append(@, c)]

\* iacseq is empty: NUL and XON are dropped, IAC opens a sequence, the rest is data
ScanData(c, st) ==
  IF c = theNULL THEN st
  ELSE IF c = XON THEN st
  ELSE IF c # IAC THEN AppendBuf(st, c)
  ELSE [st EXCEPT !.iacseq = <<IAC>>]

\* iacseq is IAC and c is IAC: mutant that drops the doubled IAC
ScanCommandDropsIAC(c, st, cb) ==
  IF c \in {DO, DONT, WILL, WONT} THEN [st EXCEPT !.iacseq = <<IAC, c>>]
  ELSE
    LET s0 == [st EXCEPT !.iacseq = <<>>] IN
    IF c = IAC THEN s0
    ELSE
      LET s1 == IF c = SB THEN [s0 EXCEPT !.sb = 1, !.sbdataq = <<>>]
                ELSE IF c = SE THEN [s0 EXCEPT !.sb = 0,
                                               !.sbdataq = s0.sbdataq \o s0.buf1,
                                               !.buf1 = <<>>]
                ELSE s0
      IN IF cb THEN [s1 EXCEPT !.calls = Append(@, <<c, NOOPT>>)] ELSE s1

\* iacseq is IAC: mutant that treats any other byte after IAC as data
ScanCommandKeepsByte(c, st, cb) ==
  IF c \in {DO, DONT, WILL, WONT} THEN [st EXCEPT !.iacseq = <<IAC, c>>]
  ELSE
    LET s0 == [st EXCEPT !.iacseq = <<>>] IN
    IF c = IAC THEN AppendBuf(s0, c)
    ELSE IF c = SB THEN
      LET s1 == [s0 EXCEPT !.sb = 1, !.sbdataq = <<>>]
      IN IF cb THEN [s1 EXCEPT !.calls = Append(@, <<c, NOOPT>>)] ELSE s1
    ELSE AppendBuf(s0, c)

\* iacseq is IAC: a verb extends the sequence, IAC is a literal 255, anything
\* else is a command reported to the callback with NOOPT
ScanCommand(c, st, cb) ==
  IF c \in {DO, DONT, WILL, WONT} THEN [st EXCEPT !.iacseq = <<IAC, c>>]
  ELSE
    LET s0 == [st EXCEPT !.iacseq = <<>>] IN
    IF c = IAC THEN AppendBuf(s0, c)
    ELSE
      LET s1 == IF c = SB THEN [s0 EXCEPT !.sb = 1, !.sbdataq = <<>>]
                ELSE IF c = SE THEN [s0 EXCEPT !.sb = 0,
                                               !.sbdataq = s0.sbdataq \o s0.buf1,
                                               !.buf1 = <<>>]
                ELSE s0
      IN IF cb THEN [s1 EXCEPT !.calls = Append(@, <<c, NOOPT>>)] ELSE s1

\* mutant: cmd taken from iacseq[0:1] instead of iacseq[1:2]
ScanOptionWrongCmd(c, st, cb) ==
  LET cmd == st.iacseq[1]
      s0 == [st EXCEPT !.iacseq = <<>>]
  IN IF cb THEN [s0 EXCEPT !.calls = Append(@, <<cmd, c>>)]
     ELSE IF cmd \in {DO, DONT} THEN [s0 EXCEPT !.sends = Append(@, <<IAC, WONT, c>>)]
     ELSE [s0 EXCEPT !.sends = Append(@, <<IAC, DONT, c>>)]

\* iacseq is IAC verb: c is the option; the callback gets (verb, option), and with
\* no callback set the option is refused over the socket
ScanOption(c, st, cb) ==
  LET cmd == st.iacseq[2]
      s0 == [st EXCEPT !.iacseq = <<>>]
  IN IF cb THEN [s0 EXCEPT !.calls = Append(@, <<cmd, c>>)]
     ELSE IF cmd \in {DO, DONT} THEN [s0 EXCEPT !.sends = Append(@, <<IAC, WONT, c>>)]
     ELSE [s0 EXCEPT !.sends = Append(@, <<IAC, DONT, c>>)]

Scan(c, st, cb) ==
  IF st.iacseq = <<>> THEN ScanData(c, st)
  ELSE IF Len(st.iacseq) = 1 THEN ScanCommand(c, st, cb)
  ELSE ScanOption(c, st, cb)

\* mutant: the loop goes on for the rest of an open IAC sequence
ScanLoopCondWaitsForSequence(raw, st) == raw # <<>> \/ st.iacseq # <<>>

\* the condition of process_rawq's loop: while self.rawq
ScanLoopCond(raw, st) == raw # <<>>

RECURSIVE ScanAll(_, _, _)
\* the while loop of process_rawq over the whole raw queue. Each iteration
\* takes its byte with rawq_getchar, which calls fill_rawq when rawq is empty:
\* st.fill records that the loop came to that call.
ScanAll(raw, st, cb) ==
  IF ~ScanLoopCond(raw, st) THEN st
  ELSE IF raw = <<>> THEN [st EXCEPT !.fill = TRUE]
  ELSE ScanAll(Tail(raw), Scan(Head(raw), st, cb), cb)

(***************************************************************************)
(* telnetlib.Telnet.process_rawq as a function of the fields it reads: the *)
(* bytes it adds to cookedq, the new iacseq, sb and sbdataq, and the       *)
(* callback invocations and refusals it made.  It consumes all of rawq and *)
(* never fills: rawq_getchar is called only while rawq is not empty.       *)
(***************************************************************************)
ProcessResetsIacseq(raw, iac, s, sbq, cb) ==
  LET st == ScanAll(raw, [buf0 |-> <<>>, buf1 |-> <<>>, iacseq |-> iac, sb |-> s,
                          sbdataq |-> sbq, calls |-> <<>>, sends |-> <<>>,
                          fill |-> FALSE], cb)
  IN [cooked |-> st.buf0, iacseq |-> <<>>, sb |-> st.sb,
      sbdataq |-> st.sbdataq \o st.buf1, calls |-> st.calls, sends |-> st.sends,
      fill |-> st.fill]

ProcessRawq(raw, iac, s, sbq, cb) ==
  LET st == ScanAll(raw, [buf0 |-> <<>>, buf1 |-> <<>>, iacseq |-> iac, sb |-> s,
                          sbdataq |-> sbq, calls |-> <<>>, sends |-> <<>>,
                          fill |-> FALSE], cb)
  IN [cooked |-> st.buf0, iacseq |-> st.iacseq, sb |-> st.sb,
      sbdataq |-> st.sbdataq \o st.buf1, calls |-> st.calls, sends |-> st.sends,
      fill |-> st.fill]

(***************************************************************************)
(* _TelnetWriter.write: data.replace(IAC, IAC+IAC).                        *)
(***************************************************************************)
RECURSIVE EscapeKeepsIAC(_)
EscapeKeepsIAC(data) ==
  IF data = <<>> THEN <<>> ELSE <<Head(data)>> \o EscapeKeepsIAC(Tail(data))

RECURSIVE Escape(_)
Escape(data) ==
  IF data = <<>> THEN <<>>
  ELSE (IF Head(data) = IAC THEN <<IAC, IAC>> ELSE <<Head(data)>>) \o Escape(Tail(data))

(***************************************************************************)
(* State.                                                                  *)
(*   rawq, cookedq, iacseq, sb, sbdataq, eof, option_callback:             *)
(*     the telnetlib.Telnet fields of the session (rawq is the unread part *)
(*     rawq[irawq:]; option_callback is TRUE when a callback is set).      *)
(*   wbuf:     the byte strings _TelnetWriter.write handed to the          *)
(*             underlying writer, one per call.                            *)
(*   sockSent: the refusals process_rawq sent with sock.sendall.           *)
(*   pc, cur:  the reader call in progress, blocked in fill_rawq:          *)
(*             pc is "idle", "read" or "read1"; cur.n its argument.        *)
(* History (not program state):                                            *)
(*   wire:     every byte recv() has returned, in order.                   *)
(*   produced: every byte process_rawq has appended to cookedq, in order.  *)
(*   returned: the results of read and read1, concatenated in call order.  *)
(*   calls:    the option_callback invocations <<command, option>>.        *)
(*   written:  the arguments of the write calls.                           *)
(*   delivered: how many bytes of the written stream were looped back.     *)
(*   last, prev: the last completed reader call, and the peek that came    *)
(*             right before it (if one did).                               *)
(*   curh:     cookedq's length when the call in progress began, and the   *)
(*             number of fills it has made.                                *)
(*   scan:     the last process_rawq run that had bytes to scan (fill:     *)
(*             whether it came to call fill_rawq).                         *)
(*   gain:     TRUE when the last step was a fill that made cooked bytes.  *)
(*   torn:     TRUE once the server has shut the session's connection down *)
(*             (the session object itself has no field for it).            *)
(*   sessions: the sessions of the server level, one per connection (see   *)
(*             ServerSpec); actor is the session that took the last step.  *)
(***************************************************************************)
VARIABLES rawq, cookedq, iacseq, sb, sbdataq, eof, option_callback,
          wbuf, sockSent, pc, cur,
          wire, produced, returned, calls, written, delivered, last, prev, curh, scan, gain,
          torn, sessions, actor

telnet == <<rawq, cookedq, iacseq, sb, sbdataq, eof, option_callback>>
control == <<pc, cur>>
io == <<wbuf, sockSent>>
hist == <<wire, produced, returned, calls, written, delivered, last, prev, curh, scan, gain>>
server == <<sessions, actor>>
single == <<telnet, control, io, hist, torn>>
life == <<torn, server>>
vars == <<telnet, control, io, hist, life>>

NoCall == [op |-> "none", n |-> 0, res |-> <<>>, lenB |-> 0, q |-> <<>>, lenA |-> 0,
           fills |-> 0, raised |-> FALSE, eofB |-> FALSE, eofR |-> FALSE]
NoCur == [op |-> "none", n |-> 0]
NoCurH == [lenB |-> 0, fills |-> 0, eofB |-> FALSE]
NoScan == [iacseq |-> <<>>, sb |-> 0, input |-> <<>>, cooked |-> <<>>, calls |-> <<>>,
           sends |-> <<>>, cb |-> FALSE, iacseqA |-> <<>>, sbA |-> 0, fill |-> FALSE]

(***************************************************************************)
(* The sessions of a server: one TelnetCmd instance per connection, each   *)
(* with its own telnetlib.Telnet fields and its own handles.  in and out   *)
(* are the bytes received from and handed to the session's connection,     *)
(* returned and written the bytes its read calls returned and its write    *)
(* calls were given.                                                       *)
(***************************************************************************)
Sessions == 1..MaxSessions

\* no connection yet
NoSession ==
  [stage |-> "none", accepted |-> FALSE, error |-> "none",
   rfile |-> FALSE, wfile |-> FALSE, handled |-> FALSE,
   rawq |-> <<>>, cookedq |-> <<>>, iacseq |-> <<>>, sb |-> 0, sbdataq |-> <<>>,
   eof |-> FALSE, pc |-> "idle", n |-> 0,
   in |-> <<>>, out |-> <<>>, returned |-> <<>>, written |-> <<>>]

\* the parameters after self of _TelnetReader.__init__ and _TelnetWriter.__init__
ReaderInitParams == <<"telnet", "before_read">>
WriterInitParams == <<"telnet">>

\* the arguments setup gives them: _TelnetReader(self), _TelnetWriter(self)
SetupReaderArgs == <<"self">>
SetupWriterArgs == <<"self">>

\* a call binds its positional arguments to the (all required) parameters, or
\* raises TypeError
Binds(params, args) == Len(args) = Len(params)

\* setup: Telnet.__init__, sock, then the two handles, the reader built from
\* readerArgs; an exception leaves setup with the later assignments not made
SetupWith(readerArgs) ==
  IF ~Binds(ReaderInitParams, readerArgs)
    THEN [NoSession EXCEPT !.stage = "failed", !.error = "TypeError"]
  ELSE IF ~Binds(WriterInitParams, SetupWriterArgs)
    THEN [NoSession EXCEPT !.stage = "failed", !.error = "TypeError", !.rfile = TRUE]
  ELSE [NoSession EXCEPT !.stage = "open", !.rfile = TRUE, !.wfile = TRUE]

(***************************************************************************)
(* telnetlib.Telnet.__init__ as run by TelnetRequestHandler.setup.         *)
(***************************************************************************)
Init ==
  /\ rawq = <<>> /\ cookedq = <<>> /\ iacseq = <<>> /\ sb = 0 /\ sbdataq = <<>>
  /\ eof = FALSE /\ option_callback = FALSE
  /\ wbuf = <<>> /\ sockSent = <<>>
  /\ pc = "idle" /\ cur = NoCur
  /\ wire = <<>> /\ produced = <<>> /\ returned = <<>> /\ calls = <<>>
  /\ written = <<>> /\ delivered = 0
  /\ last = NoCall /\ prev = NoCall /\ curh = NoCurH /\ scan = NoScan /\ gain = FALSE
  /\ torn = FALSE
  /\ sessions = [s \in Sessions |-> NoSession] /\ actor = 0

\* process_rawq on the session's fields, with raw as the raw queue
Classified(raw) == ProcessRawq(raw, iacseq, sb, sbdataq, option_callback)

\* the record of a process_rawq run over raw, from the current parser state
ScanOf(raw, p) ==
  IF raw = <<>> THEN scan
  ELSE [iacseq |-> iacseq, sb |-> sb, input |-> raw, cooked |-> p.cooked,
        calls |-> p.calls, sends |-> p.sends, cb |-> option_callback,
        iacseqA |-> p.iacseq, sbA |-> p.sb, fill |-> p.fill]

(***************************************************************************)
(* Parser level: fill_rawq and process_rawq called one at a time, as read  *)
(* and read1 call them.                                                    *)
(***************************************************************************)
\* telnetlib.Telnet.set_option_negotiation_callback
SetOptionNegotiationCallback ==
  /\ pc = "idle"
  /\ option_callback = FALSE
  /\ wire = <<>>
  /\ option_callback' = TRUE
  /\ UNCHANGED <<rawq, cookedq, iacseq, sb, sbdataq, eof, control, io, hist, life>>

\* telnetlib.Telnet.fill_rawq: one recv(); chunk = <<>> is a closed connection
FillRawq(chunk) ==
  /\ pc = "idle"
  /\ chunk # <<>> => ~eof
  /\ rawq' = rawq \o chunk
  /\ eof' = (chunk = <<>>)
  /\ wire' = wire \o chunk
  /\ gain' = FALSE
  /\ UNCHANGED <<cookedq, iacseq, sb, sbdataq, option_callback, control, io,
                 produced, returned, calls, written, delivered, last, prev, curh, scan,
                 life>>

\* telnetlib.Telnet.process_rawq
ProcessRawqCall ==
  /\ pc = "idle"
  /\ rawq # <<>>
  /\ LET p == Classified(rawq) IN
       /\ cookedq' = cookedq \o p.cooked
       /\ iacseq' = p.iacseq
       /\ sb' = p.sb
       /\ sbdataq' = p.sbdataq
       /\ calls' = calls \o p.calls
       /\ sockSent' = sockSent \o p.sends
       /\ produced' = produced \o p.cooked
       /\ scan' = ScanOf(rawq, p)
       /\ gain' = FALSE
  /\ rawq' = <<>>
  /\ UNCHANGED <<eof, option_callback, control, wbuf,
                 wire, returned, written, delivered, last, prev, curh, life>>

ParserNext ==
  \/ SetOptionNegotiationCallback
  \/ \E chunk \in Strings(ParserBytes, MaxWire - Len(wire)) : FillRawq(chunk)
  \/ ProcessRawqCall

ParserSpec == Init /\ [][ParserNext]_vars

(***************************************************************************)
(* Subnegotiation level: the same fill_rawq and process_rawq steps over    *)
(* the few bytes that make subnegotiations, on a longer wire.              *)
(***************************************************************************)
\* the bytes the connection delivers in the subnegotiation-level specification
\* (250 and 240 that do not follow IAC are literal data bytes)
SubnegBytes == {theNULL, SB, SE, IAC}

SubnegNext ==
  \/ SetOptionNegotiationCallback
  \/ \E chunk \in Strings(SubnegBytes, MaxSub - Len(wire)) : FillRawq(chunk)
  \/ ProcessRawqCall

SubnegSpec == Init /\ [][SubnegNext]_vars

(***************************************************************************)
(* Reader level: _TelnetReader.read, read1 and peek.  A call runs as one   *)
(* step up to the point where it blocks in fill_rawq (recv); each recv     *)
(* that returns is one more step, which runs the call on to its next recv  *)
(* or to its return.  Each action is the conjunction of what the code does *)
(* to the session (Core), the record of the call (Calls) and the record of *)
(* the byte streams (Stream).                                              *)
(***************************************************************************)
\* mutant: the loop stops one byte early
LoopCondOneShort(n, q, e) == IF n = -1 THEN ~e ELSE ~e /\ Len(q) < n - 1

\* mutant: read(-1) is not sent to read_all and goes through the counted loop
LoopCondNoReadAll(n, q, e) == ~e /\ Len(q) < n

\* mutant: the loop does not test eof
LoopCondIgnoresEof(n, q, e) == IF n = -1 THEN ~e ELSE Len(q) < n

\* the condition of read's while loop (n >= 0) and of read_all's (n = -1)
LoopCond(n, q, e) == IF n = -1 THEN ~e ELSE ~e /\ Len(q) < n

\* what read and read1 return from the cooked queue q: q[:n], or all of q
\* from read_all and read_lazy (n = -1)
Result(q, n) == IF n = -1 THEN q ELSE Take(q, n)

\* what read and read1 leave in the cooked queue: q[n:], or nothing (n = -1)
Rest(q, n) == IF n = -1 THEN <<>> ELSE Drop(q, n)

\* mutant: peek ignores n
PeekResultIgnoresN(q, n) == q

\* what peek returns: cookedq for n None or negative, else cookedq[:n]
PeekResult(q, n) == IF n < 0 THEN q ELSE Take(q, n)

\* the fills of one call are counted as 0, 1, or 2 for two and more
CountFill(k) == IF k < 2 THEN k + 1 ELSE k

\* the fields process_rawq assigns, but for cookedq
ParserUpdate(p) ==
  /\ iacseq' = p.iacseq /\ sb' = p.sb /\ sbdataq' = p.sbdataq /\ rawq' = <<>>

\* what process_rawq did to the outside: callbacks, refusals, cooked bytes
ParserHistory(raw, p) ==
  /\ calls' = calls \o p.calls
  /\ sockSent' = sockSent \o p.sends
  /\ produced' = produced \o p.cooked
  /\ scan' = ScanOf(raw, p)

\* a reader call returns res, or raises, having left rest in the cooked queue
Completed(op, n, res, q, rest, h, raised, e) ==
  /\ prev' = IF last.op = "peek" THEN last ELSE NoCall
  /\ last' = [op |-> op, n |-> n, res |-> res, lenB |-> h.lenB, q |-> q,
              lenA |-> Len(rest), fills |-> h.fills, raised |-> raised,
              eofB |-> h.eofB, eofR |-> e]
  /\ curh' = NoCurH

\* read(n): process_rawq, then the loop test; n = -1 is telnet.read_all()
ReadBeginCore(n) ==
  /\ pc = "idle"
  /\ LET p == Classified(rawq)
         q == cookedq \o p.cooked
     IN /\ ParserUpdate(p)
        /\ IF LoopCond(n, q, eof)
             THEN pc' = "read" /\ cur' = [op |-> "read", n |-> n] /\ cookedq' = q
             ELSE pc' = "idle" /\ cur' = NoCur /\ cookedq' = Rest(q, n)
  /\ UNCHANGED <<eof, option_callback, wbuf, life>>

ReadBeginCalls(n) ==
  LET p == Classified(rawq)
      q == cookedq \o p.cooked
      h == [lenB |-> Len(cookedq), fills |-> 0, eofB |-> eof]
  IN /\ IF LoopCond(n, q, eof)
          THEN curh' = h /\ UNCHANGED <<last, prev>>
          ELSE Completed("read", n, Result(q, n), q, Rest(q, n), h, FALSE, eof)
     /\ gain' = FALSE
     /\ UNCHANGED <<written, delivered>>

ReadBeginStream(n) ==
  LET p == Classified(rawq)
      q == cookedq \o p.cooked
  IN /\ ParserHistory(rawq, p)
     /\ returned' = IF LoopCond(n, q, eof) THEN returned ELSE returned \o Result(q, n)
     /\ UNCHANGED wire

ReadBegin(n) == ReadBeginCore(n) /\ ReadBeginCalls(n) /\ ReadBeginStream(n)

\* mutant: read1 never fills
Read1CondNeverFills(n, q, e) == FALSE

\* mutant: read1 does not test eof before its fill
Read1CondIgnoresEof(n, q, e) == n # -1 /\ Len(q) < n

\* the condition of read1's single fill: n >= 0, eof unset, fewer than n cooked
Read1Cond(n, q, e) == n # -1 /\ ~e /\ Len(q) < n

\* read1(n): process_rawq, then at most one fill; n = -1 is telnet.read_lazy(),
\* which raises EOFError when nothing is cooked, eof is set and rawq is empty
Read1Begin(n) ==
  /\ pc = "idle"
  /\ LET p == Classified(rawq)
         q == cookedq \o p.cooked
         h == [lenB |-> Len(cookedq), fills |-> 0, eofB |-> eof]
     IN /\ ParserUpdate(p)
        /\ ParserHistory(rawq, p)
        /\ IF Read1Cond(n, q, eof)
             THEN /\ pc' = "read1" /\ cur' = [op |-> "read1", n |-> n] /\ cookedq' = q
                  /\ curh' = h /\ UNCHANGED <<returned, last, prev>>
             ELSE /\ pc' = "idle" /\ cur' = NoCur /\ cookedq' = Rest(q, n)
                  /\ returned' = returned \o Result(q, n)
                  /\ Completed("read1", n, Result(q, n), q, Rest(q, n), h,
                               n = -1 /\ q = <<>> /\ eof, eof)
  /\ gain' = FALSE
  /\ UNCHANGED <<eof, option_callback, wbuf, wire, written, delivered, life>>

\* the step of a blocked call goes on looping (read only)
Loops(chunk) ==
  /\ cur.op = "read"
  /\ LoopCond(cur.n, cookedq \o Classified(rawq \o chunk).cooked, chunk = <<>>)

\* the recv of the blocked call's fill_rawq returns chunk (<<>>: closed), then
\* process_rawq, then read's loop test or read1's return
ReadFillCore(chunk) ==
  /\ pc \in {"read", "read1"}
  /\ chunk # <<>> => ~eof
  /\ LET p == Classified(rawq \o chunk)
         q == cookedq \o p.cooked
     IN /\ ParserUpdate(p)
        /\ eof' = (chunk = <<>>)
        /\ IF Loops(chunk)
             THEN UNCHANGED <<pc, cur>> /\ cookedq' = q
             ELSE pc' = "idle" /\ cur' = NoCur /\ cookedq' = Rest(q, cur.n)
  /\ UNCHANGED <<option_callback, wbuf, life>>

ReadFillCalls(chunk) ==
  LET p == Classified(rawq \o chunk)
      q == cookedq \o p.cooked
      h == [curh EXCEPT !.fills = CountFill(@)]
  IN /\ gain' = (p.cooked # <<>>)
     /\ IF Loops(chunk)
          THEN curh' = h /\ UNCHANGED <<last, prev>>
          ELSE Completed(cur.op, cur.n, Result(q, cur.n), q, Rest(q, cur.n), h,
                         FALSE, chunk = <<>>)
     /\ UNCHANGED <<written, delivered>>

ReadFillStream(chunk) ==
  LET p == Classified(rawq \o chunk)
      q == cookedq \o p.cooked
  IN /\ ParserHistory(rawq \o chunk, p)
     /\ wire' = wire \o chunk
     /\ returned' = IF Loops(chunk) THEN returned ELSE returned \o Result(q, cur.n)

ReadFill(chunk) == ReadFillCore(chunk) /\ ReadFillCalls(chunk) /\ ReadFillStream(chunk)

\* peek(n, process_rawq=doProcess): n = -1 stands for None or any negative n
Peek(n, doProcess) ==
  /\ pc = "idle"
  /\ LET raw == IF doProcess THEN rawq ELSE <<>>
         p == Classified(raw)
         q == cookedq \o p.cooked
     IN /\ iacseq' = p.iacseq /\ sb' = p.sb /\ sbdataq' = p.sbdataq
        /\ rawq' = IF doProcess THEN <<>> ELSE rawq
        /\ cookedq' = q
        /\ ParserHistory(raw, p)
        /\ prev' = NoCall
        /\ last' = [op |-> "peek", n |-> n, res |-> PeekResult(q, n),
                    lenB |-> Len(cookedq), q |-> q,
                    lenA |-> Len(q), fills |-> 0, raised |-> FALSE,
                    eofB |-> eof, eofR |-> eof]
  /\ gain' = FALSE
  /\ UNCHANGED <<eof, option_callback, control, wbuf, wire, returned, written,
                 delivered, curh, life>>

Next ==
  \/ \E n \in -1..MaxN : ReadBegin(n)
  \/ \E n \in -1..MaxN : Read1Begin(n)
  \/ \E chunk \in Strings(ReaderBytes, MaxWire - Len(wire)) : ReadFill(chunk)
  \/ \E n \in -1..MaxN : \E doProcess \in BOOLEAN : Peek(n, doProcess)

Spec == Init /\ [][Next]_vars

(***************************************************************************)
(* Liveness of read(n), n >= 0: the same read steps with no bound on the   *)
(* number of bytes the connection delivers.  The byte-stream histories are *)
(* not recorded here (they would grow for ever).  The fairness says that a *)
(* recv the reader is blocked in eventually returns, with bytes or with    *)
(* the closure.                                                            *)
(***************************************************************************)
streams == <<sockSent, wire, produced, returned, calls, scan>>

LiveReadBegin(n) == ReadBeginCore(n) /\ ReadBeginCalls(n) /\ UNCHANGED streams

LiveReadFill(chunk) == ReadFillCore(chunk) /\ ReadFillCalls(chunk) /\ UNCHANGED streams

LiveFill == \E chunk \in Strings(LiveBytes, MaxBurst) : LiveReadFill(chunk)

LiveNext ==
  \/ \E n \in 0..MaxN : LiveReadBegin(n)
  \/ LiveFill

LiveSpec == Init /\ [][LiveNext]_vars /\ WF_vars(LiveFill)

(***************************************************************************)
(* Writer level: _TelnetWriter.write, and the loop from a writer to the    *)
(* reader of a peer that runs the same code: the bytes handed to the       *)
(* connection by write arrive, in order, as the results of the peer's      *)
(* recv.  The session's own parser fields stand for the peer's.            *)
(***************************************************************************)
\* write(data): the IAC bytes doubled, then one write of the underlying writer
Write(data) ==
  /\ pc = "idle"
  /\ Len(written) < MaxWrites
  /\ wbuf' = Append(wbuf, Escape(data))
  /\ written' = Append(written, data)
  /\ UNCHANGED <<telnet, control, sockSent, wire, produced, returned, calls,
                 delivered, last, prev, curh, scan, gain, life>>

\* the peer's fill_rawq: recv returns all the bytes written and not yet received
Deliver ==
  /\ pc = "idle"
  /\ delivered < Len(Concat(wbuf))
  /\ LET chunk == SubSeq(Concat(wbuf), delivered + 1, Len(Concat(wbuf))) IN
       /\ rawq' = rawq \o chunk
       /\ eof' = FALSE
       /\ wire' = wire \o chunk
       /\ delivered' = delivered + Len(chunk)
  /\ gain' = FALSE
  /\ UNCHANGED <<cookedq, iacseq, sb, sbdataq, option_callback, control, io,
                 produced, returned, calls, written, last, prev, curh, scan, life>>

LoopNext ==
  \/ \E data \in Strings(WriterBytes, MaxLen) : Write(data)
  \/ Deliver
  \/ ProcessRawqCall

LoopSpec == Init /\ [][LoopNext]_vars

(***************************************************************************)
(* Session level: the reader and writer calls of one session together with *)
(* what the connection can do to them: a recv that raises (connection      *)
(* error, timeout) and the shutdown of the connection by the server once   *)
(* the handler is done.  Neither changes a field of the session: fill_rawq *)
(* assigns eof only after recv has returned, and the handles have no       *)
(* closed or terminated state of their own.                                *)
(***************************************************************************)
\* the bytes the connection delivers in the session-level specification
SessionBytes == {Letter.A}

\* the recv of the blocked call's fill_rawq raises: the exception leaves
\* fill_rawq before eof and rawq are assigned and propagates out of read/read1
ReadFillFails ==
  /\ pc \in {"read", "read1"}
  /\ pc' = "idle" /\ cur' = NoCur
  /\ Completed(cur.op, cur.n, <<>>, cookedq, cookedq, curh, TRUE, eof)
  /\ gain' = FALSE
  /\ UNCHANGED <<telnet, io, wire, produced, returned, calls, written, delivered,
                 scan, life>>

\* socketserver shuts the request socket down after the handler has run; the
\* session object and its rfile/wfile are left as they are
Teardown ==
  /\ pc = "idle"
  /\ ~torn
  /\ torn' = TRUE
  /\ UNCHANGED <<telnet, control, io, hist, server>>

SessionNext ==
  \/ \E n \in -1..MaxN : ReadBegin(n)
  \/ \E n \in -1..MaxN : Read1Begin(n)
  \/ \E chunk \in Strings(SessionBytes, MaxWire - Len(wire)) : ReadFill(chunk)
  \/ ReadFillFails
  \/ \E n \in -1..MaxN : \E doProcess \in BOOLEAN : Peek(n, doProcess)
  \/ Write(<<IAC>>)
  \/ Teardown

SessionSpec == Init /\ [][SessionNext]_vars

(***************************************************************************)
(* Server level: TelnetCmd.serve_forever gives every accepted connection   *)
(* to handle_request in a thread of its own.  Each step is one session's:  *)
(* its creation, a read(1) up to its blocking recv, the return of that     *)
(* recv, or a write of one 255 byte.                                       *)
(***************************************************************************)
\* the data byte of session s's connection, one per connection: A, B, ...
Tag(s) == Letter.A + s - 1

\* the bytes session s's connection delivers
ConnBytes(s) == {Tag(s)}

\* mutant: every reader works on the first session's Telnet object
TelnetOfFirst(s) == 1

\* the Telnet object (and its socket) a session's rfile works on: the session
\* itself, self.telnet = telnet with setup's argument self
TelnetOf(s) == s

\* handle_request: a new instance, whose __init__ runs setup and, when setup
\* has returned, handle
HandleRequest(s) ==
  /\ sessions[s].stage = "none"
  /\ LET new == SetupWith(SetupReaderArgs) IN
       sessions' = [sessions EXCEPT ![s] = [new EXCEPT !.accepted = TRUE,
                                                       !.handled = (new.stage = "open")]]
  /\ actor' = s
  /\ UNCHANGED single

\* a session whose handles are built with the arguments their __init__ asks for
OpenSession(s) ==
  /\ sessions[s].stage = "none"
  /\ sessions' = [sessions EXCEPT ![s] = SetupWith(ReaderInitParams)]
  /\ actor' = s
  /\ UNCHANGED single

\* read(n) of session s up to its first recv, or to its return
SessionReadBegin(s, n) ==
  /\ sessions[s].stage = "open" /\ sessions[s].pc = "idle"
  /\ LET t == TelnetOf(s)
         T == sessions[t]
         p == ProcessRawq(T.rawq, T.iacseq, T.sb, T.sbdataq, FALSE)
         q == T.cookedq \o p.cooked
     IN sessions' =
          IF LoopCond(n, q, T.eof)
            THEN [sessions EXCEPT ![t].rawq = <<>>, ![t].iacseq = p.iacseq, ![t].sb = p.sb,
                                  ![t].sbdataq = p.sbdataq, ![t].cookedq = q,
                                  ![s].pc = "read", ![s].n = n]
            ELSE [sessions EXCEPT ![t].rawq = <<>>, ![t].iacseq = p.iacseq, ![t].sb = p.sb,
                                  ![t].sbdataq = p.sbdataq, ![t].cookedq = Rest(q, n),
                                  ![s].returned = @ \o Result(q, n)]
  /\ actor' = s
  /\ UNCHANGED single

\* the recv of session s's blocked read returns chunk (<<>>: closed)
SessionReadFill(s, chunk) ==
  /\ sessions[s].pc = "read"
  /\ LET t == TelnetOf(s)
         T == sessions[t]
         n == sessions[s].n
         p == ProcessRawq(T.rawq \o chunk, T.iacseq, T.sb, T.sbdataq, FALSE)
         q == T.cookedq \o p.cooked
     IN /\ Len(T.in) + Len(chunk) <= MaxIn
        /\ chunk # <<>> => ~T.eof
        /\ sessions' =
             IF LoopCond(n, q, chunk = <<>>)
               THEN [sessions EXCEPT ![t].rawq = <<>>, ![t].iacseq = p.iacseq,
                                     ![t].sb = p.sb, ![t].sbdataq = p.sbdataq,
                                     ![t].cookedq = q, ![t].eof = (chunk = <<>>),
                                     ![t].in = @ \o chunk]
               ELSE [sessions EXCEPT ![t].rawq = <<>>, ![t].iacseq = p.iacseq,
                                     ![t].sb = p.sb, ![t].sbdataq = p.sbdataq,
                                     ![t].cookedq = Rest(q, n), ![t].eof = (chunk = <<>>),
                                     ![t].in = @ \o chunk,
                                     ![s].pc = "idle", ![s].n = 0,
                                     ![s].returned = @ \o Result(q, n)]
  /\ actor' = s
  /\ UNCHANGED single

\* write(data) of session s
SessionWrite(s, data) ==
  /\ sessions[s].stage = "open" /\ sessions[s].pc = "idle"
  /\ Len(sessions[s].written) + Len(data) <= MaxOut
  /\ sessions' = [sessions EXCEPT ![s].out = @ \o Escape(data),
                                  ![s].written = @ \o data]
  /\ actor' = s
  /\ UNCHANGED single

ServerNext ==
  \/ \E s \in Sessions : HandleRequest(s)
  \/ \E s \in Sessions : OpenSession(s)
  \/ \E s \in Sessions : SessionReadBegin(s, 1)
  \/ \E s \in Sessions : \E chunk \in Strings(ConnBytes(s), MaxIn) : SessionReadFill(s, chunk)
  \/ \E s \in Sessions : SessionWrite(s, <<IAC>>)

ServerSpec == Init /\ [][ServerNext]_vars

(***************************************************************************)
(* Claims settled at the server level (ServerSpec).                        *)
(***************************************************************************)
\* C13 as claimed: session creation. For every accepted connection setup
\* completes without error, the session has its rfile and its wfile, and
\* handle has been run on them.
C13_SetupCompletes ==
  \A s \in Sessions :
    sessions[s].accepted =>
      /\ sessions[s].error = "none"
      /\ sessions[s].rfile /\ sessions[s].wfile
      /\ sessions[s].handled

\* what one scan of everything a session's connection has delivered cooks
CookedOf(s) == ProcessRawq(sessions[s].in, <<>>, 0, <<>>, FALSE).cooked

\* C20: session isolation. A step of one session leaves every other session
\* as it was (queues, parser state, eof, the bytes of its connection in both
\* directions, the results of its reads); what a session's reads have
\* returned, followed by its cooked queue, is what its own connection's bytes
\* cook to, and holds no other connection's byte; and what its connection was
\* handed is its own writes, escaped.
C20_SessionIsolation ==
  /\ [][\A t \in Sessions \ {actor'} : sessions'[t] = sessions[t]]_vars
  /\ [](\A s \in Sessions :
          /\ sessions[s].returned \o sessions[s].cookedq = CookedOf(s)
          /\ \A i \in 1..Len(sessions[s].returned) : sessions[s].returned[i] = Tag(s)
          /\ sessions[s].out = Escape(sessions[s].written))

\* C20 witness: two sessions at work: the first has read the byte its
\* connection delivered and is blocked in its next read; the second, which
\* wrote a 255 to its connection, then read the byte its own delivered.
C20_Witness ==
  /\ sessions[1].stage = "open" /\ sessions[2].stage = "open"
  /\ sessions[1].in = <<Tag(1)>> /\ sessions[1].returned = <<Tag(1)>>
  /\ sessions[1].pc = "read" /\ sessions[1].out = <<>>
  /\ sessions[2].in = <<Tag(2)>> /\ sessions[2].returned = <<Tag(2)>>
  /\ sessions[2].out = <<IAC, IAC>>
  /\ actor = 2

(***************************************************************************)
(* Claims settled at the parser level (ParserSpec).                        *)
(***************************************************************************)
\* the scan started in NORMAL state: no pending IAC sequence, not in a subnegotiation
ScanFromNormal == scan.iacseq = <<>> /\ scan.sb = 0

\* process_rawq over the whole wire in one run, from a fresh session
WholeWire == ProcessRawq(wire, <<>>, 0, <<>>, option_callback)

C7_DoubledIAC ==
  (ScanFromNormal /\ Len(scan.input) >= 2 /\ scan.input[1] = IAC /\ scan.input[2] = IAC) =>
    /\ scan.input = <<IAC, IAC>> =>
         scan.cooked = <<IAC>> /\ scan.iacseqA = <<>> /\ scan.sbA = 0
    /\ (\A i \in 3..Len(scan.input) : scan.input[i] \notin {IAC, theNULL, XON}) =>
         /\ scan.cooked = <<IAC>> \o SubSeq(scan.input, 3, Len(scan.input))
         /\ scan.calls = <<>> /\ scan.sends = <<>>
         /\ scan.iacseqA = <<>> /\ scan.sbA = 0

\* C7 witness: the wire sequence 255 255 65 was scanned from NORMAL state.
C7_Witness ==
  ScanFromNormal /\ scan.input = <<IAC, IAC, Letter.A>> /\ scan.cooked = <<IAC, Letter.A>>

\* C8 as claimed: IAC verb option scanned from NORMAL state always invokes the
\* negotiation callback exactly once with (verb, option).
C8_Original ==
  \A v \in {WILL, WONT, DO, DONT} : \A o \in ParserBytes :
    (ScanFromNormal /\ scan.input = <<IAC, v, o>>) =>
      /\ scan.calls = << <<v, o>> >>
      /\ scan.cooked = <<>>
      /\ scan.iacseqA = <<>> /\ scan.sbA = 0

\* C8 amended: IAC verb option scanned from NORMAL state appends nothing to the
\* cooked queue and returns to NORMAL; when an option callback is set it is
\* invoked exactly once with (verb, option) and nothing is sent; when none is
\* set nothing is invoked and the option is refused over the socket
\* (IAC WONT option for DO/DONT, IAC DONT option for WILL/WONT).
C8_NegotiationRouting ==
  \A v \in {WILL, WONT, DO, DONT} : \A o \in ParserBytes :
    (ScanFromNormal /\ scan.input = <<IAC, v, o>>) =>
      /\ scan.cooked = <<>>
      /\ scan.iacseqA = <<>> /\ scan.sbA = 0
      /\ scan.cb => scan.calls = << <<v, o>> >> /\ scan.sends = <<>>
      /\ ~scan.cb => /\ scan.calls = <<>>
                     /\ scan.sends = << <<IAC, IF v \in {DO, DONT} THEN WONT ELSE DONT, o>> >>

\* C8 witness: IAC DO ECHO was scanned with a callback set, which got (DO, ECHO).
C8_Witness ==
  /\ ScanFromNormal /\ scan.input = <<IAC, DO, ECHO>> /\ scan.cb
  /\ scan.calls = << <<DO, ECHO>> >>

\* the bytes that after IAC are neither a literal 255, a verb nor SB
Unrecognized == ParserBytes \ {IAC, WILL, WONT, DO, DONT, SB}

\* C15: malformed envelope policy. A scan that starts in NORMAL state on IAC b,
\* b being neither IAC, a verb nor SB, consumes both bytes, appends nothing to
\* the cooked queue, sends nothing, is back in NORMAL, and invokes the
\* callback, when one is set, exactly once with (b, NOOPT); a literal byte that
\* follows IAC b in the same scan is appended to the cooked queue as usual.
C15_MalformedEnvelope ==
  \A b \in Unrecognized :
    (/\ ScanFromNormal /\ Len(scan.input) >= 2
     /\ scan.input[1] = IAC /\ scan.input[2] = b) =>
      /\ Len(scan.input) = 2 =>
           /\ scan.cooked = <<>> /\ scan.sends = <<>>
           /\ scan.iacseqA = <<>> /\ scan.sbA = 0
           /\ scan.calls = IF scan.cb THEN << <<b, NOOPT>> >> ELSE <<>>
      /\ (Len(scan.input) = 3 /\ scan.input[3] \notin {IAC, theNULL, XON}) =>
           /\ scan.cooked = <<scan.input[3]>> /\ scan.sends = <<>>
           /\ scan.iacseqA = <<>> /\ scan.sbA = 0
           /\ scan.calls = IF scan.cb THEN << <<b, NOOPT>> >> ELSE <<>>

\* C15 witness: IAC NOP "A" was scanned from NORMAL state with a callback set:
\* the callback got (NOP, NOOPT) and "A" was cooked.
C15_Witness ==
  /\ ScanFromNormal /\ scan.input = <<IAC, NOP, Letter.A>> /\ scan.cb
  /\ scan.calls = << <<NOP, NOOPT>> >> /\ scan.cooked = <<Letter.A>>
  /\ rawq = <<>> /\ iacseq = <<>> /\ sb = 0

(***************************************************************************)
(* Claims settled at the subnegotiation level (SubnegSpec).                *)
(***************************************************************************)
\* the wire is IAC SB, a payload of k bytes free of IAC, IAC SE, and literal
\* bytes free of IAC after it
IsSubnegotiation(k) ==
  /\ Len(wire) >= k + 4
  /\ wire[1] = IAC /\ wire[2] = SB
  /\ wire[k + 3] = IAC /\ wire[k + 4] = SE
  /\ \A i \in (3..(k + 2)) \cup ((k + 5)..Len(wire)) : wire[i] # IAC

\* the wire is IAC SB followed by bytes free of IAC: a subnegotiation not ended
InSubnegotiation ==
  /\ Len(wire) >= 2 /\ wire[1] = IAC /\ wire[2] = SB
  /\ \A i \in 3..Len(wire) : wire[i] # IAC

\* C16 as claimed: subnegotiation framing. From IAC SB to IAC SE nothing is
\* appended to the cooked queue, however the bytes were split over fills; when
\* IAC SE has been scanned the callback has been invoked and the payload it is
\* given is all the bytes between SB and IAC SE, the parser is back in NORMAL,
\* and the bytes after IAC SE are appended to the cooked queue.
C16_SubnegotiationFraming ==
  /\ InSubnegotiation => cookedq = <<>>
  /\ \A k \in 0..(MaxSub - 4) :
       (rawq = <<>> /\ IsSubnegotiation(k)) =>
         /\ sbdataq = SubSeq(wire, 3, k + 2)
         /\ option_callback => calls = << <<SB, NOOPT>>, <<SE, NOOPT>> >>
         /\ iacseq = <<>> /\ sb = 0
         /\ cookedq = SubSeq(wire, k + 5, Len(wire))

(***************************************************************************)
(* Claims settled at the reader level (Spec).                              *)
(***************************************************************************)
\* a is a prefix of b
IsPrefix(a, b) == Len(a) <= Len(b) /\ a = SubSeq(b, 1, Len(a))

\* C2: no loss, duplication or reordering on the read path. At every moment the
\* results of the read and read1 calls so far, concatenated in call order and
\* followed by the cooked queue, are the bytes process_rawq has produced, in
\* the order it produced them.
C2_ReadPathPreservesStream == returned \o cookedq = produced

\* C2 witness: two different cooked bytes, the first handed out by an earlier
\* call and the second by a read1 that had to fill; nothing is left queued.
C2_Witness ==
  /\ pc = "idle" /\ last.op = "read1" /\ last.fills = 1 /\ last.res = <<IAC>>
  /\ returned = <<Letter.A, IAC>> /\ cookedq = <<>> /\ produced = <<Letter.A, IAC>>

\* C3: read(n), n >= 0, returns at most n bytes, which are the front of the
\* cooked queue and are removed from it; fewer than n only with eof set at the
\* return; nothing for n > 0 only with eof set and the cooked queue empty.
C3_ReadExact ==
  (pc = "idle" /\ last.op = "read" /\ last.n >= 0) =>
    /\ Len(last.res) <= last.n
    /\ last.res \o cookedq = last.q
    /\ Len(last.res) < last.n => last.eofR /\ eof
    /\ (last.n > 0 /\ last.res = <<>>) => last.eofR /\ last.q = <<>> /\ cookedq = <<>>

\* C3 witness: read(2) came back with one byte because the connection closed.
C3_Witness ==
  /\ pc = "idle" /\ last.op = "read" /\ last.n = 2 /\ last.res = <<Letter.A>>
  /\ last.eofR /\ last.fills = 2

\* C5 as claimed: peek(n) followed at once by read(n) returns the same bytes,
\* peek leaves the cooked queue's length as it was, and read(n) leaves it
\* shorter than at the call by the number of bytes returned.
C5_Original ==
  (last.op = "read" /\ prev.op = "peek" /\ last.n = prev.n /\ last.n >= 0) =>
    /\ last.res = prev.res
    /\ prev.lenA = prev.lenB
    /\ last.lenA = last.lenB - Len(last.res)

\* C5 amended: peek(n) leaves the cooked queue as it was and fills nothing.
\* When at the peek the cooked queue holds at least n bytes or eof is set, the
\* read(n) that follows fills nothing, returns the same bytes and leaves the
\* queue shorter than at the call by the bytes returned. Otherwise read(n)
\* fills until n bytes are cooked or the connection closes: peek's result is
\* then only a prefix of read's, and the queue after read is what read's
\* fills made of it less the bytes returned.
C5_PeekThenRead ==
  (last.op = "read" /\ prev.op = "peek" /\ last.n = prev.n /\ last.n >= 0) =>
    /\ prev.lenA = prev.lenB /\ prev.fills = 0
    /\ IsPrefix(prev.res, last.res)
    /\ last.lenA = Len(last.q) - Len(last.res)
    /\ (prev.lenA >= prev.n \/ prev.eofR) =>
         /\ last.fills = 0
         /\ last.res = prev.res
         /\ last.lenA = last.lenB - Len(last.res)

\* C5 witness: peek(2) saw one cooked byte on an open connection, and the
\* read(2) that followed filled and returned two.
C5_Witness ==
  /\ last.op = "read" /\ prev.op = "peek" /\ last.n = 2 /\ prev.n = 2
  /\ prev.res = <<Letter.A>> /\ ~prev.eofR
  /\ Len(last.res) = 2 /\ last.fills > 0

\* C10: read(-1) returns only with eof set, returns everything cooked that no
\* earlier call returned, and leaves the cooked queue empty.
C10_ReadAll ==
  (last.op = "read" /\ last.n = -1) =>
    /\ last.eofR /\ eof
    /\ last.res = last.q /\ last.lenA = 0
    /\ returned = produced
    /\ cookedq = <<>>

\* C10 witness: read(-1) blocked through several fills up to the closure, and
\* returned the two bytes cooked meanwhile after an earlier call had taken one.
C10_Witness ==
  /\ last.op = "read" /\ last.n = -1 /\ last.fills = 2 /\ Len(last.res) = 2
  /\ Len(returned) = 3 /\ Len(wire) = 3

\* C11 as claimed: a read1 call classifies the raw queue once, returns and
\* removes all that the cooked queue then holds, and performs no fill.
C11_Original ==
  (pc = "idle" /\ last.op = "read1" /\ ~last.raised) =>
    /\ last.fills = 0
    /\ last.res = last.q /\ cookedq = <<>>

\* C11 amended: read1(-1) fills nothing and returns and removes all that the
\* cooked queue holds after one classification. read1(n), n >= 0, makes at
\* most one fill: none when eof is set at the call, none unless fewer than n
\* bytes are cooked after the first classification, and one when eof is unset
\* and fewer than n bytes are cooked; it returns and removes the first n bytes
\* of the cooked queue (all of it when it holds fewer).
C11_Read1AtMostOneFill ==
  (pc = "idle" /\ last.op = "read1") =>
    /\ last.fills <= 1
    /\ last.res \o cookedq = last.q
    /\ last.n = -1 => last.fills = 0 /\ last.res = last.q /\ cookedq = <<>>
    /\ last.n >= 0 =>
         /\ Len(last.res) = Min(last.n, Len(last.q))
         /\ last.eofB => last.fills = 0
         /\ (last.fills = 0 /\ ~last.eofB) => Len(last.q) >= last.n
         /\ last.fills = 1 => last.lenB < last.n

\* C11 witness: read1(2) on an open connection with nothing cooked made one
\* fill and returned the one byte it brought.
C11_Witness ==
  /\ pc = "idle" /\ last.op = "read1" /\ last.n = 2 /\ ~last.eofB /\ last.lenB = 0
  /\ last.fills = 1 /\ last.res = <<Letter.A>> /\ ~last.eofR

\* C14: eof is monotonic. In every step of the reader calls and their fills,
\* eof once set stays set and nothing more is received from the connection; a
\* call is never blocked in a fill with eof set; and a read or read1 that was
\* called with eof set has made no fill.
C14_EofMonotonic ==
  [][/\ eof => eof' /\ wire' = wire
     /\ pc' # "idle" => ~eof'
     /\ (last'.op \in {"read", "read1", "peek"} /\ last'.eofB) =>
          last'.fills = 0 /\ last'.eofR]_vars

\* C14 witness: the closure was met by an earlier call, and a read1(2) called
\* after it returned at once with eof still set, without a fill.
C14_Witness ==
  /\ pc = "idle" /\ eof /\ last.op = "read1" /\ last.n = 2 /\ last.eofB
  /\ last.fills = 0 /\ last.eofR /\ Len(wire) > 0

C19_NoFalseEof ==
  (pc = "idle" /\ last.op = "read1" /\ last.n > 0 /\ last.res = <<>>) =>
    last.eofR /\ eof /\ cookedq = <<>>

(***************************************************************************)
(* Claims settled at the session level (SessionSpec).                      *)
(***************************************************************************)
\* C12 as claimed: once the session has been torn down, every read, read1,
\* peek or write fails: no reader call completes without raising, none
\* returns bytes, and no write is accepted.
C12_TerminatedFails ==
  [][torn => /\ last' # last => last'.raised
             /\ returned' = returned
             /\ written' = written]_vars

\* C18 as claimed: a fill that fails inside read or read1 propagates at once,
\* leaves eof set, and leaves the queues and the parser consistent: nothing
\* cooked is lost or duplicated.
C18_FillFailure ==
  (pc = "idle" /\ last.raised /\ ~(last.op = "read1" /\ last.n = -1)) =>
    /\ eof
    /\ last.res = <<>> /\ Len(cookedq) = last.lenA
    /\ returned \o cookedq = produced

(***************************************************************************)
(* Claims settled for read's termination (LiveSpec).                       *)
(***************************************************************************)
\* a read(n), n >= 0, called with eof set returns what the cooked queue holds
\* (all of it when n is larger) without a fill
NoFillAfterEof ==
  (last.op = "read" /\ last.eofB) =>
    /\ last.fills = 0
    /\ last.res = Take(last.q, last.n) /\ last.lenB = Len(last.q)
    /\ last.n > last.lenB => last.res = last.q /\ last.lenA = 0

\* C4 as claimed: after closure read(n) returns the remaining bytes without a
\* fill, and whenever every blocked recv eventually returns (with bytes or the
\* closure) every read(n) eventually returns.
C4_Original == []NoFillAfterEof /\ ((pc = "read") ~> (pc = "idle"))

\* C4 amended: after closure read(n) returns the remaining bytes without a
\* fill; and a read(n) eventually returns when the connection eventually
\* closes or keeps delivering literal data bytes (fills that add to the cooked
\* queue). A connection that for ever delivers only control sequences (such as
\* IAC NOP) keeps read(n) blocked.
C4_ReadTerminates ==
  /\ []NoFillAfterEof
  /\ (<>eof \/ []<>gain) => ((pc = "read") ~> (pc = "idle"))

\* C4 witness: read(2) was called after the closure (which an earlier read
\* met, returning the cooked bytes left) and returned at once, with nothing
\* and without a fill.
C4_Witness ==
  /\ pc = "idle" /\ last.op = "read" /\ last.eofB /\ last.n = 2 /\ eof
  /\ last.res = <<>> /\ last.fills = 0 /\ cookedq = <<>>

(***************************************************************************)
(* Claims settled at the writer level (LoopSpec).                          *)
(***************************************************************************)
\* the number of IAC bytes among the first k bytes of data
RECURSIVE CountIAC(_, _)
CountIAC(data, k) ==
  IF k = 0 THEN 0 ELSE CountIAC(data, k - 1) + (IF data[k] = IAC THEN 1 ELSE 0)

\* out is data with every 255 replaced by two 255 and every other byte kept
IsEscapeOf(out, data) ==
  /\ Len(out) = Len(data) + CountIAC(data, Len(data))
  /\ \A i \in 1..Len(data) :
       /\ out[i + CountIAC(data, i - 1)] = data[i]
       /\ data[i] = IAC => out[i + CountIAC(data, i - 1) + 1] = IAC

\* C1 as claimed: round trip. Once the bytes the write calls handed to the
\* connection have all reached a parser that started in NORMAL state with an
\* empty cooked queue and have been scanned, the cooked queue is exactly what
\* was written and the parser is back in NORMAL state.
C1_RoundTrip ==
  (rawq = <<>> /\ delivered = Len(Concat(wbuf))) =>
    /\ cookedq = Concat(written)
    /\ iacseq = <<>> /\ sb = 0

====
